---- MODULE Spec2Model ----
(***************************************************************************)
(* State machine of the EcosoulLanding widget controller                   *)
(* (src/src/EcosoulLanding.jsx): voice uploads, memory chat, story mode,   *)
(* memory journal and the healing timer, together with the browser         *)
(* facilities they drive (localStorage, object URLs, timers, speech).      *)
(*                                                                         *)
(* Conventions                                                             *)
(*  - a JS string is a sequence of one-character strings; a fixed piece of *)
(*    template text is a single token of such a sequence;                  *)
(*  - Math.random and Date.now are nondeterministic choices;               *)
(*  - one action is one event handler together with the React effects that *)
(*    are flushed before the next event is handled.                        *)
(***************************************************************************)
EXTENDS Integers, Sequences, FiniteSets

VARIABLES
    \* environment
    speechSupported,   \* 'speechSynthesis' in window
    now,               \* last value returned by Date.now()
    utterance,         \* what the synthesiser is speaking (NoUtterance if none)
    speakCalls,        \* parity of the number of speakText invocations so far
    \* healing mode
    isHealing, healingProgress, healingTimerRef,
    intervals,         \* ids of the browser's active repeating timers
    cycle,             \* closure variable `cycle` of each startHealing call
    nextTimer,         \* the id the next setInterval call returns
    \* memory chat and story mode
    chatInput, chatMessages, storyPrompt, storyCount,
    replyTimers,       \* the setTimeout callbacks scheduled by sendChat
    \* voice uploads
    voiceUploads, lsUploads, blobUrls, revokeCalls, nextUrl,
    mounted, mountUploads,
    \* memory journal
    title, body, journalEntries, lsJournal,
    alerts,            \* parity of the number of alert() notices shown so far
    journalAdded,      \* the entries created so far, oldest first
    journalRemoved     \* the ids passed to deleteJournalEntry so far

envVars     == <<speechSupported, now>>
speechVars  == <<utterance, speakCalls>>
healingVars == <<isHealing, healingProgress, healingTimerRef, intervals, cycle, nextTimer>>
chatVars    == <<chatInput, chatMessages, storyPrompt, storyCount, replyTimers>>
uploadVars  == <<voiceUploads, lsUploads, blobUrls, revokeCalls, nextUrl, mounted, mountUploads>>
journalVars == <<title, body, journalEntries, lsJournal, alerts, journalAdded, journalRemoved>>
vars == <<envVars, speechVars, healingVars, chatVars, uploadVars, journalVars>>

(***************************************************************************)
(* Bounds of the model                                                     *)
(***************************************************************************)
NumSuffixes == 2   \* number of distinct outcomes of the random id suffix
MaxTime == 1       \* latest clock reading
MaxRuns == 2       \* healing sessions started
MaxSends == 2      \* chat messages accepted
MaxStories == 1    \* stories generated into the chat
MaxUploads == 1    \* object URLs created
MaxAdds == 1       \* journal entries created
MaxTextLen == 82   \* longest chat message typed

(***************************************************************************)
(* Strings                                                                 *)
(***************************************************************************)
\* what is typed into a text field: nothing, blanks only, text that trimming
\* changes, text that it leaves alone
Strings == {<<>>, <<" ">>, <<" ", "a", " ">>, <<"b">>}

IsSpace(c) == c = " "

RECURSIVE trimStart(_)
trimStart(s) == IF s # <<>> /\ IsSpace(Head(s)) THEN trimStart(Tail(s)) ELSE s

RECURSIVE trimEnd(_)
trimEnd(s) ==
    IF s # <<>> /\ IsSpace(s[Len(s)]) THEN trimEnd(SubSeq(s, 1, Len(s) - 1)) ELSE s

\* String.prototype.trim
trim(s) == trimEnd(trimStart(s))

\* the single character U+2026
Ellipsis == "(ellipsis)"

\* s.slice(0, k) for k >= 0
slice0(s, k) == SubSeq(s, 1, IF k < Len(s) THEN k ELSE Len(s))

\* mutant: the cut keeps n characters before the ellipsis
truncateKeepN(s, n) == IF Len(s) > n THEN Append(slice0(s, n), Ellipsis) ELSE s

truncate(s, n) == IF Len(s) > n THEN Append(slice0(s, n - 1), Ellipsis) ELSE s

(***************************************************************************)
(* Clock, random ids                                                       *)
(***************************************************************************)
Times == 0..MaxTime
Suffixes == 1..NumSuffixes

\* Date.now(): some reading not earlier than the previous one
DateNow(t) == t \in now..MaxTime /\ now' = t

\* uid(prefix) with the random suffix r
uid(prefix, r) == [prefix |-> prefix, suffix |-> r]

(***************************************************************************)
(* Speech                                                                  *)
(***************************************************************************)
NoUtterance == <<"(silence)">>

\* speakText(text): synth.cancel() then synth.speak(utt), when supported
speakText(text) ==
    /\ speakCalls' = (speakCalls + 1) % 2
    /\ utterance' = IF speechSupported THEN text ELSE utterance

(***************************************************************************)
(* Healing mode                                                            *)
(***************************************************************************)
total == 6
NoTimer == 0
BreathCue == <<"Inhale... 1, 2, 3, 4. Exhale... 1, 2, 3, 4, 5, 6.">>

\* healingProgress is held in units of 1/total percent, so that
\* (cycle / total) * 100 is exact
Percent(p) == p * total
\* mutant: the bar shows the cycles that remain
CycleProgressRemaining(c) == (total - c) * 100

CycleProgress(c) == c * 100

clearInterval(id) == intervals \ {id}

startHealing ==
    /\ nextTimer <= MaxRuns
    /\ isHealing' = TRUE
    /\ healingProgress' = Percent(0)
    /\ healingTimerRef' = nextTimer
    /\ intervals' = intervals \cup {nextTimer}
    /\ cycle' = [cycle EXCEPT ![nextTimer] = 0]
    /\ nextTimer' = nextTimer + 1
    /\ UNCHANGED <<envVars, speechVars, chatVars, uploadVars, journalVars>>

\* mutant: the Start button is not disabled while a session runs
StartClickAlways == startHealing

\* the Start button is rendered with disabled={isHealing}
StartClick ==
    IF isHealing THEN UNCHANGED vars ELSE startHealing

\* mutant: the completion test is off by one (cycle > total)
HealingTickLate(id) ==
    /\ id \in intervals
    /\ cycle' = [cycle EXCEPT ![id] = @ + 1]
    /\ speakText(BreathCue)
    /\ IF cycle'[id] > total
       THEN /\ intervals' = clearInterval(healingTimerRef)
            /\ isHealing' = FALSE
            /\ healingProgress' = Percent(100)
       ELSE /\ healingProgress' = CycleProgress(cycle'[id])
            /\ UNCHANGED <<intervals, isHealing>>
    /\ UNCHANGED <<healingTimerRef, nextTimer>>
    /\ UNCHANGED <<envVars, chatVars, uploadVars, journalVars>>

\* mutant: the last tick forgets setIsHealing(false)
HealingTickStaysActive(id) ==
    /\ id \in intervals
    /\ cycle' = [cycle EXCEPT ![id] = @ + 1]
    /\ speakText(BreathCue)
    /\ IF cycle'[id] >= total
       THEN /\ intervals' = clearInterval(healingTimerRef)
            /\ healingProgress' = Percent(100)
            /\ UNCHANGED isHealing
       ELSE /\ healingProgress' = CycleProgress(cycle'[id])
            /\ UNCHANGED <<intervals, isHealing>>
    /\ UNCHANGED <<healingTimerRef, nextTimer>>
    /\ UNCHANGED <<envVars, chatVars, uploadVars, journalVars>>

\* one firing of the interval callback created by the startHealing call `id`
HealingTick(id) ==
    /\ id \in intervals
    /\ cycle' = [cycle EXCEPT ![id] = @ + 1]
    /\ speakText(BreathCue)
    /\ IF cycle'[id] >= total
       THEN /\ intervals' = clearInterval(healingTimerRef)
            /\ isHealing' = FALSE
            /\ healingProgress' = Percent(100)
       ELSE /\ healingProgress' = CycleProgress(cycle'[id])
            /\ UNCHANGED <<intervals, isHealing>>
    /\ UNCHANGED <<healingTimerRef, nextTimer>>
    /\ UNCHANGED <<envVars, chatVars, uploadVars, journalVars>>

\* mutant: stop forgets clearInterval
stopHealingNoClear ==
    /\ isHealing' = FALSE
    /\ healingProgress' = Percent(0)
    /\ UNCHANGED <<healingTimerRef, intervals, cycle, nextTimer>>
    /\ UNCHANGED <<envVars, speechVars, chatVars, uploadVars, journalVars>>

\* mutant: stop cancels every timer of the page, the chat's timeouts too
stopHealingAllTimers ==
    /\ intervals' = {}
    /\ replyTimers' = [k \in DOMAIN replyTimers |->
                          IF replyTimers[k].state = "pending"
                          THEN [replyTimers[k] EXCEPT !.state = "cancelled"]
                          ELSE replyTimers[k]]
    /\ isHealing' = FALSE
    /\ healingProgress' = Percent(0)
    /\ UNCHANGED <<healingTimerRef, cycle, nextTimer>>
    /\ UNCHANGED <<chatInput, chatMessages, storyPrompt, storyCount>>
    /\ UNCHANGED <<envVars, speechVars, uploadVars, journalVars>>

stopHealing ==
    /\ intervals' = clearInterval(healingTimerRef)
    /\ isHealing' = FALSE
    /\ healingProgress' = Percent(0)
    /\ UNCHANGED <<healingTimerRef, cycle, nextTimer>>
    /\ UNCHANGED <<envVars, speechVars, chatVars, uploadVars, journalVars>>

StopClick == stopHealing

HealingNext ==
    \/ StartClick
    \/ StopClick
    \/ \E id \in 1..MaxRuns : HealingTick(id)

(***************************************************************************)
(* Memory chat and story mode                                              *)
(***************************************************************************)
Greeting == <<"I can't wait to hear about your day - tell me something good.">>
InitialMessage == [id |-> [prefix |-> "(number)", suffix |-> 1], from |-> "soul",
                   text |-> Greeting, time |-> 0]

EchoLimit == 80
Template1Head == "I remember when you told me: \""
Template1Tail == "\". That made me smile."
Template2 == <<"Hearing about this warms me. Tell me more - what happened next?">>
Template3 == <<"I'm here with you. Breathe with me. Imagine us sitting quietly, listening together.">>
Template4 == <<"You always find the little joys. I'm proud of you for noticing them.">>
NumTemplates == 4

\* templates[pick](userText), pick = Math.floor(Math.random() * templates.length)
generateSoulReply(userText, pick) ==
    CASE pick = 0 -> <<Template1Head>> \o truncate(userText, EchoLimit) \o <<Template1Tail>>
      [] pick = 1 -> Template2
      [] pick = 2 -> Template3
      [] pick = 3 -> Template4

\* String.prototype.toLowerCase on the characters of the model
LowerChar(c) == CASE c = "A" -> "a" [] c = "B" -> "b" [] c = "T" -> "t" [] OTHER -> c
toLowerCase(s) == [i \in 1..Len(s) |-> LowerChar(s[i])]

StoryHead == "Once, when the two of you wandered into the late-light, "
StoryTail == " - and everything felt bright. You laughed, and the world listened."
createStory(prompt) == <<StoryHead>> \o toLowerCase(prompt) \o <<StoryTail>>

DefaultPrompt == <<"T", "ell the story of when we first met.">>
PromptInputs == {<<"A", "b">>}

\* onChange of the chat textarea
TypeChat(s) ==
    /\ chatInput' = s
    /\ UNCHANGED <<chatMessages, storyPrompt, storyCount, replyTimers>>
    /\ UNCHANGED <<envVars, speechVars, healingVars, uploadVars, journalVars>>

\* mutant: the user message carries the input as typed, not trimmed
sendChatRaw ==
    IF trim(chatInput) = <<>>
    THEN UNCHANGED vars
    ELSE /\ Len(replyTimers) < MaxSends
         /\ \E r \in Suffixes, t \in Times :
              /\ DateNow(t)
              /\ chatMessages' = Append(chatMessages,
                     [id |-> uid("m", r), from |-> "you", text |-> chatInput, time |-> t])
         /\ chatInput' = <<>>
         /\ replyTimers' = Append(replyTimers, [text |-> trim(chatInput), state |-> "pending"])
         /\ UNCHANGED <<speechSupported, storyPrompt, storyCount>>
         /\ UNCHANGED <<speechVars, healingVars, uploadVars, journalVars>>

\* mutant: the emptiness test forgets to trim
sendChatNoTrim ==
    IF chatInput = <<>>
    THEN UNCHANGED vars
    ELSE /\ Len(replyTimers) < MaxSends
         /\ \E r \in Suffixes, t \in Times :
              /\ DateNow(t)
              /\ chatMessages' = Append(chatMessages,
                     [id |-> uid("m", r), from |-> "you", text |-> trim(chatInput), time |-> t])
         /\ chatInput' = <<>>
         /\ replyTimers' = Append(replyTimers, [text |-> trim(chatInput), state |-> "pending"])
         /\ UNCHANGED <<speechSupported, storyPrompt, storyCount>>
         /\ UNCHANGED <<speechVars, healingVars, uploadVars, journalVars>>

\* Send button, or Enter in the textarea (onChatKey)
sendChat ==
    IF trim(chatInput) = <<>>
    THEN UNCHANGED vars
    ELSE /\ Len(replyTimers) < MaxSends
         /\ \E r \in Suffixes, t \in Times :
              /\ DateNow(t)
              /\ chatMessages' = Append(chatMessages,
                     [id |-> uid("m", r), from |-> "you", text |-> trim(chatInput), time |-> t])
         /\ chatInput' = <<>>
         /\ replyTimers' = Append(replyTimers, [text |-> trim(chatInput), state |-> "pending"])
         /\ UNCHANGED <<speechSupported, storyPrompt, storyCount>>
         /\ UNCHANGED <<speechVars, healingVars, uploadVars, journalVars>>

\* mutant: the callback reads the input as it is when the delay elapses
SoulReplyLateRead(k) ==
    /\ k \in DOMAIN replyTimers
    /\ replyTimers[k].state = "pending"
    /\ \E pick \in 0..(NumTemplates - 1), r \in Suffixes, t \in Times :
         LET soulReply == generateSoulReply(trim(chatInput), pick) IN
           /\ DateNow(t)
           /\ chatMessages' = Append(chatMessages,
                  [id |-> uid("m", r), from |-> "soul", text |-> soulReply, time |-> t])
           /\ speakText(soulReply)
    /\ replyTimers' = [replyTimers EXCEPT ![k].state = "fired"]
    /\ UNCHANGED <<speechSupported, chatInput, storyPrompt, storyCount>>
    /\ UNCHANGED <<healingVars, uploadVars, journalVars>>

\* the setTimeout callback of the k-th accepted send
SoulReply(k) ==
    /\ k \in DOMAIN replyTimers
    /\ replyTimers[k].state = "pending"
    /\ \E pick \in 0..(NumTemplates - 1), r \in Suffixes, t \in Times :
         LET soulReply == generateSoulReply(replyTimers[k].text, pick) IN
           /\ DateNow(t)
           /\ chatMessages' = Append(chatMessages,
                  [id |-> uid("m", r), from |-> "soul", text |-> soulReply, time |-> t])
           /\ speakText(soulReply)
    /\ replyTimers' = [replyTimers EXCEPT ![k].state = "fired"]
    /\ UNCHANGED <<speechSupported, chatInput, storyPrompt, storyCount>>
    /\ UNCHANGED <<healingVars, uploadVars, journalVars>>

\* mutant: Clear also cancels the replies that are still scheduled
ClearChatCancel ==
    /\ chatMessages' = <<>>
    /\ replyTimers' = [k \in DOMAIN replyTimers |->
                          IF replyTimers[k].state = "pending"
                          THEN [replyTimers[k] EXCEPT !.state = "cancelled"]
                          ELSE replyTimers[k]]
    /\ UNCHANGED <<chatInput, storyPrompt, storyCount>>
    /\ UNCHANGED <<envVars, speechVars, healingVars, uploadVars, journalVars>>

\* mutant: Clear puts the log back to its opening state
ClearChatToGreeting ==
    /\ chatMessages' = <<InitialMessage>>
    /\ UNCHANGED <<chatInput, storyPrompt, storyCount, replyTimers>>
    /\ UNCHANGED <<envVars, speechVars, healingVars, uploadVars, journalVars>>

\* Clear button of the chat
ClearChat ==
    /\ chatMessages' = <<>>
    /\ UNCHANGED <<chatInput, storyPrompt, storyCount, replyTimers>>
    /\ UNCHANGED <<envVars, speechVars, healingVars, uploadVars, journalVars>>

\* onChange of the story prompt input
TypeStoryPrompt(s) ==
    /\ storyPrompt' = s
    /\ UNCHANGED <<chatInput, chatMessages, storyCount, replyTimers>>
    /\ UNCHANGED <<envVars, speechVars, healingVars, uploadVars, journalVars>>

\* Generate & Speak button
GenerateAndSpeak ==
    /\ storyCount < MaxStories
    /\ storyCount' = storyCount + 1
    /\ \E r \in Suffixes, t \in Times :
         /\ DateNow(t)
         /\ chatMessages' = Append(chatMessages,
                [id |-> uid("m", r), from |-> "soul", text |-> createStory(storyPrompt), time |-> t])
    /\ speakText(createStory(storyPrompt))
    /\ UNCHANGED <<speechSupported, chatInput, storyPrompt, replyTimers>>
    /\ UNCHANGED <<healingVars, uploadVars, journalVars>>

\* Play Only button
playStory ==
    /\ speakText(createStory(storyPrompt))
    /\ UNCHANGED <<envVars, healingVars, chatVars, uploadVars, journalVars>>

ChatNext ==
    \/ \E s \in Strings : TypeChat(s)
    \/ sendChat
    \/ \E k \in 1..MaxSends : SoulReply(k)
    \/ ClearChat

StoryNext ==
    \/ \E s \in PromptInputs \cup {DefaultPrompt} : TypeStoryPrompt(s)
    \/ GenerateAndSpeak
    \/ playStory

(***************************************************************************)
(* localStorage and JSON                                                   *)
(*                                                                         *)
(* A stored item is absent, text that JSON.parse rejects, or the text of   *)
(* an array of objects; the text of an object is the sequence of its       *)
(* <<key, value>> members in property order.                               *)
(***************************************************************************)
Absent == [kind |-> "absent"]
Garbage == [kind |-> "garbage"]
\* well-formed JSON text of something that is not an array: `null`, `{}`
NullText == [kind |-> "null"]
ObjectText == [kind |-> "object"]
NonArrayTexts == {NullText, ObjectText}

\* a JavaScript value that is not an array; arrays are the sequences, whose
\* indices start at 1
JsValue(what) == [k \in {0} |-> what]
IsArray(v) == 0 \notin DOMAIN v

\* JSON.stringify of an array of objects whose properties are `keys`
JSONstringify(recs, keys) ==
    [kind |-> "array",
     items |-> [i \in 1..Len(recs) |-> [j \in 1..Len(keys) |-> <<keys[j], recs[i][keys[j]]>>]]]

ObjectOf(members) ==
    [k \in {members[j][1] : j \in DOMAIN members} |->
        members[CHOOSE j \in DOMAIN members : members[j][1] = k][2]]

\* JSON.parse throws on this text
ParseThrows(text) == text.kind = "garbage"

JSONparse(text) ==
    IF text.kind = "array"
    THEN [i \in 1..Len(text.items) |-> ObjectOf(text.items[i])]
    ELSE JsValue(text.kind)

\* the useState initialisers: JSON.parse(getItem(key) || "[]"), [] on a throw
LoadCollection(item) ==
    IF item.kind = "absent" THEN <<>>
    ELSE IF ParseThrows(item) THEN <<>>
    ELSE JSONparse(item)

(***************************************************************************)
(* Voice uploads                                                           *)
(***************************************************************************)
UploadKeys == <<"id", "name", "size", "url", "createdAt">>
Files == {[name |-> "a.mp3", size |-> 0], [name |-> "b.wav", size |-> 1]}

\* the file input has no `multiple` attribute
MaxBatch == 1
Selections == UNION {[1..n -> Files] : n \in 0..MaxBatch}

\* object URLs: those created in this page, and those of an earlier page that
\* are left over in storage
BlobUrl(n) == [page |-> "this", n |-> n]
StaleUrl(n) == [page |-> "earlier", n |-> n]
AllUrls == {BlobUrl(n) : n \in 1..MaxUploads} \cup {StaleUrl(1), StaleUrl(2)}

StaleUpload(n) == [id |-> uid("voice", n), name |-> "a.mp3", size |-> 0,
                   url |-> StaleUrl(n), createdAt |-> 0]
StoredUploads == {Absent, Garbage,
                  JSONstringify(<<StaleUpload(1)>>, UploadKeys),
                  JSONstringify(<<StaleUpload(2), StaleUpload(1)>>, UploadKeys)}

\* mutant: the effect writes the collection of the previous render
PersistUploadsStale == lsUploads' = JSONstringify(voiceUploads, UploadKeys)

\* the effect on [voiceUploads]
PersistUploads == lsUploads' = JSONstringify(voiceUploads', UploadKeys)

\* onChange of the file input
handleVoiceUpload(files) ==
    /\ mounted
    /\ nextUrl + Len(files) - 1 <= MaxUploads
    /\ \E rs \in [1..Len(files) -> Suffixes], t \in Times :
         LET items == [i \in 1..Len(files) |->
                          [id |-> uid("voice", rs[i]),
                           name |-> files[i].name,
                           size |-> files[i].size,
                           url |-> BlobUrl(nextUrl + i - 1),
                           createdAt |-> t]]
         IN /\ files = <<>> => t = now
            /\ DateNow(t)
            /\ voiceUploads' = items \o voiceUploads
    /\ blobUrls' = blobUrls \cup {BlobUrl(nextUrl + i - 1) : i \in 1..Len(files)}
    /\ nextUrl' = nextUrl + Len(files)
    /\ PersistUploads
    /\ UNCHANGED <<speechSupported, revokeCalls, mounted, mountUploads>>
    /\ UNCHANGED <<speechVars, healingVars, chatVars, journalVars>>

\* mutant: removal by position, list.splice(list.findIndex(...), 1); an id
\* that is not in the list gives position -1, which splices the last record
removeUploadSplice(id) ==
    /\ mounted
    /\ voiceUploads' =
         IF \E i \in DOMAIN voiceUploads : voiceUploads[i].id = id
         THEN LET at == CHOOSE i \in DOMAIN voiceUploads :
                           /\ voiceUploads[i].id = id
                           /\ \A j \in 1..(i - 1) : voiceUploads[j].id # id
              IN SubSeq(voiceUploads, 1, at - 1) \o SubSeq(voiceUploads, at + 1, Len(voiceUploads))
         ELSE SubSeq(voiceUploads, 1, Len(voiceUploads) - 1)
    /\ PersistUploads
    /\ UNCHANGED <<blobUrls, revokeCalls, nextUrl, mounted, mountUploads>>
    /\ UNCHANGED <<envVars, speechVars, healingVars, chatVars, journalVars>>

\* Delete button of an uploaded clip
removeUpload(id) ==
    /\ mounted
    /\ voiceUploads' = SelectSeq(voiceUploads, LAMBDA v : v.id # id)
    /\ PersistUploads
    /\ UNCHANGED <<blobUrls, revokeCalls, nextUrl, mounted, mountUploads>>
    /\ UNCHANGED <<envVars, speechVars, healingVars, chatVars, journalVars>>

\* URL.revokeObjectURL on every url of `urls`
RevokeAll(urls) ==
    /\ blobUrls' = blobUrls \ urls
    /\ revokeCalls' = [u \in DOMAIN revokeCalls |->
                          IF u \in urls THEN revokeCalls[u] + 1 ELSE revokeCalls[u]]

\* cleanup of the effect with the empty dependency list: it runs at unmount
\* over the voiceUploads of the first render
Unmount ==
    /\ mounted
    /\ mounted' = FALSE
    /\ RevokeAll({mountUploads[i].url : i \in DOMAIN mountUploads})
    /\ UNCHANGED <<voiceUploads, lsUploads, nextUrl, mountUploads>>
    /\ UNCHANGED <<envVars, speechVars, healingVars, chatVars, journalVars>>

UploadIds == {uid("voice", r) : r \in Suffixes}

UploadsNext ==
    \/ \E files \in Selections : handleVoiceUpload(files)
    \/ \E id \in UploadIds : removeUpload(id)
    \/ Unmount

(***************************************************************************)
(* Memory journal                                                          *)
(***************************************************************************)
JournalKeys == <<"id", "title", "body", "createdAt">>
StaleEntry == [id |-> uid("j", 1), title |-> <<"a">>, body |-> <<"a">>, createdAt |-> 0]
StoredJournal == {Absent, Garbage, JSONstringify(<<StaleEntry>>, JournalKeys)}

\* the effect on [journalEntries]
PersistJournal == lsJournal' = JSONstringify(journalEntries', JournalKeys)

\* mutant: the new entry goes to the end of the list
addJournalEntryAppend(t, b) ==
    /\ Len(journalAdded) < MaxAdds
    /\ \E r \in Suffixes, at \in Times :
         LET entry == [id |-> uid("j", r), title |-> t, body |-> b, createdAt |-> at]
         IN /\ DateNow(at)
            /\ journalEntries' = Append(journalEntries, entry)
            /\ journalAdded' = Append(journalAdded, entry)
    /\ PersistJournal

addJournalEntry(t, b) ==
    /\ Len(journalAdded) < MaxAdds
    /\ \E r \in Suffixes, at \in Times :
         LET entry == [id |-> uid("j", r), title |-> t, body |-> b, createdAt |-> at]
         IN /\ DateNow(at)
            /\ journalEntries' = <<entry>> \o journalEntries
            /\ journalAdded' = Append(journalAdded, entry)
    /\ PersistJournal

\* onChange of the two fields of JournalForm
TypeTitle(s) ==
    /\ title' = s
    /\ UNCHANGED <<body, journalEntries, lsJournal, alerts, journalAdded, journalRemoved>>
    /\ UNCHANGED <<envVars, speechVars, healingVars, chatVars, uploadVars>>

TypeBody(s) ==
    /\ body' = s
    /\ UNCHANGED <<title, journalEntries, lsJournal, alerts, journalAdded, journalRemoved>>
    /\ UNCHANGED <<envVars, speechVars, healingVars, chatVars, uploadVars>>

\* mutant: only the title is validated
saveTitleOnly ==
    IF trim(title) = <<>>
    THEN /\ alerts' = (alerts + 1) % 2
         /\ UNCHANGED <<title, body, journalEntries, lsJournal, journalAdded, journalRemoved>>
         /\ UNCHANGED <<envVars, speechVars, healingVars, chatVars, uploadVars>>
    ELSE /\ addJournalEntry(trim(title), trim(body))
         /\ title' = <<>>
         /\ body' = <<>>
         /\ UNCHANGED <<speechSupported, alerts, journalRemoved>>
         /\ UNCHANGED <<speechVars, healingVars, chatVars, uploadVars>>

\* Save Letter button: JournalForm.save
save ==
    IF trim(title) = <<>> \/ trim(body) = <<>>
    THEN /\ alerts' = (alerts + 1) % 2
         /\ UNCHANGED <<title, body, journalEntries, lsJournal, journalAdded, journalRemoved>>
         /\ UNCHANGED <<envVars, speechVars, healingVars, chatVars, uploadVars>>
    ELSE /\ addJournalEntry(trim(title), trim(body))
         /\ title' = <<>>
         /\ body' = <<>>
         /\ UNCHANGED <<speechSupported, alerts, journalRemoved>>
         /\ UNCHANGED <<speechVars, healingVars, chatVars, uploadVars>>

\* Clear button of JournalForm
ClearForm ==
    /\ title' = <<>>
    /\ body' = <<>>
    /\ UNCHANGED <<journalEntries, lsJournal, alerts, journalAdded, journalRemoved>>
    /\ UNCHANGED <<envVars, speechVars, healingVars, chatVars, uploadVars>>

\* Delete button of the saved letter at position i
deleteJournalEntry(id) ==
    /\ journalEntries' = SelectSeq(journalEntries, LAMBDA e : e.id # id)
    /\ journalRemoved' = journalRemoved \cup {id}
    /\ PersistJournal
    /\ UNCHANGED <<title, body, alerts, journalAdded>>
    /\ UNCHANGED <<envVars, speechVars, healingVars, chatVars, uploadVars>>

DeleteClick(i) ==
    /\ i \in DOMAIN journalEntries
    /\ deleteJournalEntry(journalEntries[i].id)

\* Read button of the saved letter at position i
ReadClick(i) ==
    /\ i \in DOMAIN journalEntries
    /\ speakText(journalEntries[i].body)
    /\ UNCHANGED <<envVars, healingVars, chatVars, uploadVars, journalVars>>

JournalNext ==
    \/ \E s \in Strings : TypeTitle(s)
    \/ \E s \in Strings : TypeBody(s)
    \/ save
    \/ ClearForm
    \/ \E i \in 1..(MaxAdds + 1) : DeleteClick(i)
    \/ \E i \in 1..(MaxAdds + 1) : ReadClick(i)

(***************************************************************************)
(* Opening the page                                                        *)
(***************************************************************************)
\* the page is loaded over what the storage holds: the useState initialisers
\* run, then the first render, which reads .length and calls .map on both
\* collections and throws a TypeError on a value that has no .map; a render
\* that throws commits nothing, so no effect runs and the page stays blank.
\* A new document starts without object URLs and without calls on them.
Mount ==
    /\ voiceUploads' = LoadCollection(lsUploads)
    /\ journalEntries' = LoadCollection(lsJournal)
    /\ IF IsArray(voiceUploads') /\ IsArray(journalEntries')
       THEN /\ mounted' = TRUE
            /\ mountUploads' = voiceUploads'
            /\ lsUploads' = JSONstringify(voiceUploads', UploadKeys)
            /\ lsJournal' = JSONstringify(journalEntries', JournalKeys)
       ELSE /\ mounted' = FALSE
            /\ mountUploads' = <<>>
            /\ UNCHANGED <<lsUploads, lsJournal>>
    /\ blobUrls' = {}
    /\ revokeCalls' = [u \in AllUrls |-> 0]
    /\ UNCHANGED <<nextUrl, title, body, alerts, journalAdded, journalRemoved>>
    /\ UNCHANGED <<envVars, speechVars, healingVars, chatVars>>

(***************************************************************************)
(* Initial states: the state after the first render and its effects        *)
(***************************************************************************)
WidgetInit(speech) ==
    /\ speechSupported = speech
    /\ now = 0
    /\ utterance = NoUtterance
    /\ speakCalls = 0
    /\ isHealing = FALSE
    /\ healingProgress = 0
    /\ healingTimerRef = NoTimer
    /\ intervals = {}
    /\ cycle = [id \in 1..MaxRuns |-> 0]
    /\ nextTimer = 1
    /\ chatInput = <<>>
    /\ chatMessages = <<InitialMessage>>
    /\ storyPrompt = DefaultPrompt
    /\ storyCount = 0
    /\ replyTimers = <<>>
    /\ blobUrls = {}
    /\ revokeCalls = [u \in AllUrls |-> 0]
    /\ nextUrl = 1
    /\ title = <<>>
    /\ body = <<>>
    /\ alerts = 0
    /\ journalAdded = <<>>
    /\ journalRemoved = {}

InitWith(storedUploads, storedJournal, speech) ==
    /\ WidgetInit(speech)
    /\ voiceUploads = LoadCollection(storedUploads)
    /\ lsUploads = JSONstringify(voiceUploads, UploadKeys)
    /\ mounted = TRUE
    /\ mountUploads = voiceUploads
    /\ journalEntries = LoadCollection(storedJournal)
    /\ lsJournal = JSONstringify(journalEntries, JournalKeys)

Init ==
    \E su \in StoredUploads, sj \in StoredJournal, sp \in BOOLEAN : InitWith(su, sj, sp)

Next == HealingNext \/ ChatNext \/ StoryNext \/ UploadsNext \/ JournalNext

Spec == Init /\ [][Next]_vars

\* each part of the widget on its own, the rest of the page left alone
HealingInit == \E sp \in BOOLEAN : InitWith(Absent, Absent, sp)
SpecHealing == HealingInit /\ [][HealingNext]_vars

ChatInit == InitWith(Absent, Absent, TRUE)
SpecChat == ChatInit /\ [][ChatNext]_vars

UploadsInit == \E su \in StoredUploads : InitWith(su, Absent, TRUE)
SpecUploads == UploadsInit /\ [][UploadsNext]_vars

JournalInit == \E sj \in StoredJournal : InitWith(Absent, sj, TRUE)
SpecJournal == JournalInit /\ [][JournalNext]_vars

\* the chat with its timers: a scheduled setTimeout callback is eventually run
SpecChatFair == SpecChat /\ \A k \in 1..MaxSends : WF_vars(SoulReply(k))

\* the two persisted collections together
StoresInit == \E su \in StoredUploads, sj \in StoredJournal : InitWith(su, sj, TRUE)
StoresNext ==
    \/ \E files \in Selections : handleVoiceUpload(files)
    \/ \E id \in UploadIds : removeUpload(id)
    \/ \E s \in Strings : TypeTitle(s)
    \/ \E s \in Strings : TypeBody(s)
    \/ save
    \/ \E i \in 1..(MaxAdds + 1) : DeleteClick(i)
SpecStores == StoresInit /\ [][StoresNext]_vars

\* the whole chat card: the chat and the story buttons write the same log;
\* one chat message is sent
FirstSend == replyTimers = <<>> /\ sendChat
ChatStoryNext ==
    \/ \E s \in Strings : TypeChat(s)
    \/ FirstSend
    \/ SoulReply(1)
    \/ ClearChat
    \/ StoryNext
SpecChatStory == ChatInit /\ [][ChatStoryNext]_vars

\* the chat fed with messages around the length at which the reply that
\* quotes the user cuts the quotation
Letters == <<"a", "b", "c">>
LongText(n) == [i \in 1..n |-> Letters[(i % 3) + 1]]
EchoTexts == {LongText(n) : n \in (EchoLimit - 1)..MaxTextLen}
EchoNext ==
    \/ \E s \in EchoTexts : TypeChat(s)
    \/ sendChat
    \/ \E k \in 1..MaxSends : SoulReply(k)
SpecEcho == ChatInit /\ [][EchoNext]_vars

\* the chat at work while the other cards of the page are used: the healing
\* buttons, Delete on a stored clip and on a stored letter
PendingInit ==
    InitWith(JSONstringify(<<StaleUpload(1)>>, UploadKeys),
             JSONstringify(<<StaleEntry>>, JournalKeys), TRUE)
PendingNext ==
    \/ TypeChat(<<"b">>)
    \/ sendChat
    \/ \E k \in 1..MaxSends : SoulReply(k)
    \/ ClearChat
    \/ StartClick
    \/ StopClick
    \/ \E id \in UploadIds : removeUpload(id)
    \/ \E i \in 1..(MaxAdds + 1) : DeleteClick(i)
SpecPendingFair ==
    /\ PendingInit
    /\ [][PendingNext]_vars
    /\ \A k \in 1..MaxSends : WF_vars(SoulReply(k))

\* the healing card and the chat side by side, with one chat message sent
HealingChatNext ==
    \/ HealingNext
    \/ \E s \in Strings : TypeChat(s)
    \/ FirstSend
    \/ SoulReply(1)
    \/ ClearChat
SpecHealingChat == ChatInit /\ [][HealingChatNext]_vars

\* the page before it is opened, over any content of the two storage keys,
\* then opened, used and reloaded
LoadInit ==
    /\ WidgetInit(TRUE)
    /\ lsUploads \in StoredUploads \cup NonArrayTexts
    /\ lsJournal \in StoredJournal \cup NonArrayTexts
    /\ voiceUploads = <<>>
    /\ journalEntries = <<>>
    /\ mounted = FALSE
    /\ mountUploads = <<>>
LoadNext == Mount \/ UploadsNext
SpecLoad == LoadInit /\ [][LoadNext]_vars

(***************************************************************************)
(* Properties of the healing timer                                         *)
(***************************************************************************)
TimerIds == 1..MaxRuns

\* C1: natural completion. The tick that brings a run's cycle count to 6
\* leaves healingProgress at exactly 100, the session inactive and the run's
\* interval cancelled; a run never counts a 7th tick, and a run that has
\* counted 6 is no longer scheduled.
C1_NaturalCompletion ==
    /\ [](\A id \in TimerIds :
            /\ cycle[id] <= total
            /\ cycle[id] = total => id \notin intervals)
    /\ [][\A id \in TimerIds :
            (cycle[id] = total - 1 /\ cycle'[id] = total) =>
                /\ healingProgress' = Percent(100)
                /\ ~isHealing'
                /\ id \notin intervals'
                /\ intervals' = {}]_vars

\* a run has completed naturally
C1_Witness ==
    \E id \in TimerIds :
        /\ cycle[id] = total
        /\ healingProgress = Percent(100)
        /\ ~isHealing
        /\ intervals = {}

\* C2: manual stop. stop() while a session runs, at any cycle count, leaves
\* the session inactive with progress 0 and nothing scheduled; a run that is
\* no longer scheduled never ticks again, and while nothing is scheduled no
\* step narrates or moves progress anywhere but back to 0.
C2_ManualStop ==
    /\ [][(isHealing /\ StopClick) =>
            /\ ~isHealing'
            /\ healingProgress' = Percent(0)
            /\ intervals' = {}]_vars
    /\ [][\A id \in TimerIds :
            (id < nextTimer /\ id \notin intervals) => cycle'[id] = cycle[id]]_vars
    /\ [][intervals = {} =>
            /\ speakCalls' = speakCalls
            /\ utterance' = utterance
            /\ healingProgress' # healingProgress => healingProgress' = Percent(0)]_vars

\* a run was stopped after some ticks and before its 6th
C2_Witness ==
    \E id \in TimerIds :
        /\ id < nextTimer
        /\ cycle[id] > 0
        /\ cycle[id] < total
        /\ id \notin intervals
        /\ ~isHealing
        /\ healingProgress = Percent(0)

\* C3: at most one repeating schedule. The active intervals are exactly the
\* one of the running session, if any; and while a session stays running no
\* step restarts it: the interval of the session stays the same and neither
\* its cycle count nor the progress goes back.
C3_SingleSchedule ==
    /\ [](/\ Cardinality(intervals) <= 1
          /\ isHealing => intervals = {healingTimerRef}
          /\ ~isHealing => intervals = {})
    /\ [][(isHealing /\ isHealing') =>
            /\ healingTimerRef' = healingTimerRef
            /\ intervals' = intervals
            /\ cycle'[healingTimerRef] >= cycle[healingTimerRef]
            /\ healingProgress' >= healingProgress]_vars

\* a session is running and has made progress: Start is pressed in vain here
C3_Witness ==
    /\ isHealing
    /\ intervals = {healingTimerRef}
    /\ cycle[healingTimerRef] > 0
    /\ healingProgress = CycleProgress(cycle[healingTimerRef])
    /\ ENABLED StartClick

(***************************************************************************)
(* Properties of the upload registry                                       *)
(***************************************************************************)
SessionUrls == {BlobUrl(n) : n \in 1..(nextUrl - 1)}
RegistryUrls == {voiceUploads[i].url : i \in DOMAIN voiceUploads}

\* C4: removal releases the handle. Every object URL created for an upload
\* is carried by one record of the registry under the file's name while it
\* has not been released, and once its record has been removed it has been
\* released exactly once.
C4_RemoveReleasesOnce ==
    \A u \in SessionUrls :
        IF u \in RegistryUrls
        THEN /\ Cardinality({i \in DOMAIN voiceUploads : voiceUploads[i].url = u}) = 1
             /\ mounted => revokeCalls[u] = 0
        ELSE revokeCalls[u] = 1

\* C5: teardown releases every outstanding handle. After the unmount no
\* object URL created during the session and still carried by a record of
\* the registry is left unreleased.
C5_TeardownReleasesAll ==
    ~mounted => \A u \in SessionUrls \cap RegistryUrls :
                    /\ u \notin blobUrls
                    /\ revokeCalls[u] >= 1

(***************************************************************************)
(* Properties of the chat                                                  *)
(***************************************************************************)
Last(q) == q[Len(q)]
Extends(q, p) == Len(q) = Len(p) + 1 /\ SubSeq(q, 1, Len(p)) = p

\* the four template outputs for the user text u
KnownReplies(u) ==
    {<<Template1Head>> \o truncate(u, EchoLimit) \o <<Template1Tail>>,
     Template2, Template3, Template4}

Fires(k) ==
    /\ k \in DOMAIN replyTimers
    /\ replyTimers[k].state = "pending"
    /\ replyTimers'[k].state = "fired"

\* C6: chat exchange. A send with non-empty trimmed input appends, in the
\* same step, one user message carrying the trimmed text, clears the input
\* buffer and schedules one reply; when that reply fires it appends exactly
\* one companion message whose text is one of the four template outputs for
\* the sent text; a reply fires at most once, companion messages appear only
\* that way, and every scheduled reply eventually fires.
C6_ChatExchange ==
    /\ [][(trim(chatInput) # <<>> /\ sendChat) =>
            /\ Extends(chatMessages', chatMessages)
            /\ Last(chatMessages').from = "you"
            /\ Last(chatMessages').text = trim(chatInput)
            /\ chatInput' = <<>>
            /\ replyTimers' = Append(replyTimers, [text |-> trim(chatInput), state |-> "pending"])]_vars
    /\ [][\A k \in 1..MaxSends : Fires(k) =>
            /\ Extends(chatMessages', chatMessages)
            /\ Last(chatMessages').from = "soul"
            /\ Last(chatMessages').text \in KnownReplies(replyTimers[k].text)
            /\ \A j \in DOMAIN replyTimers : j # k => replyTimers'[j] = replyTimers[j]]_vars
    /\ [][\A k \in DOMAIN replyTimers :
            replyTimers[k].state = "fired" => replyTimers'[k] = replyTimers[k]]_vars
    /\ [][(Len(chatMessages') > Len(chatMessages) /\ Last(chatMessages').from = "soul") =>
            \E k \in 1..MaxSends : Fires(k)]_vars
    /\ \A k \in 1..MaxSends :
            (k \in DOMAIN replyTimers /\ replyTimers[k].state = "pending")
                ~> (k \in DOMAIN replyTimers /\ replyTimers[k].state = "fired")

\* the reply to a send whose input needed trimming has been delivered after
\* the user message
C6_Witness ==
    /\ replyTimers # <<>>
    /\ replyTimers[1] = [text |-> <<"a">>, state |-> "fired"]
    /\ \E i, j \in DOMAIN chatMessages :
          /\ i < j
          /\ chatMessages[i].from = "you"
          /\ chatMessages[i].text = <<"a">>
          /\ chatMessages[j].from = "soul"
          /\ chatMessages[j].text \in KnownReplies(<<"a">>)
    /\ chatInput = <<>>

\* C7: a send whose input is empty after trimming changes nothing: not the
\* log, the scheduled replies, the narration or the input buffer. Hence a
\* user message is appended or a reply scheduled only from an input that is
\* non-empty after trimming, and no scheduled reply holds an empty text.
C7_EmptySendIsNoOp ==
    /\ [][(trim(chatInput) = <<>> /\ sendChat) =>
            UNCHANGED <<chatMessages, replyTimers, utterance, speakCalls, chatInput>>]_vars
    /\ [][(\/ Len(replyTimers') > Len(replyTimers)
           \/ /\ Len(chatMessages') > Len(chatMessages)
              /\ Last(chatMessages').from = "you") =>
            trim(chatInput) # <<>>]_vars
    /\ [](\A k \in DOMAIN replyTimers : replyTimers[k].text # <<>>)

\* blanks are in the input buffer and nothing was ever sent
C7_Witness ==
    /\ chatInput = <<" ">>
    /\ chatMessages = <<InitialMessage>>
    /\ replyTimers = <<>>
    /\ speakCalls = 0
    /\ ENABLED sendChat

(***************************************************************************)
(* Properties of the journal and of persistence                            *)
(***************************************************************************)
Range(q) == {q[i] : i \in DOMAIN q}

\* C8: journal integrity. list() holds no entry whose id was removed, every
\* entry it holds is one that was added (or loaded) unchanged, and deleting
\* an entry removes that entry only.
C8_JournalIntegrity ==
    /\ [](\A i \in DOMAIN journalEntries :
            /\ journalEntries[i].id \notin journalRemoved
            /\ journalEntries[i] \in Range(journalAdded) \cup {StaleEntry})
    /\ [][\A i \in 1..(MaxAdds + 1) :
            DeleteClick(i) => Len(journalEntries') = Len(journalEntries) - 1]_vars

\* C9: journal add validation. Saving with a title or body that is empty
\* after trimming shows the notice and leaves the journal and its persisted
\* copy unchanged; an entry is created only from a title and body that are
\* both non-empty after trimming, it carries them trimmed, and no notice is
\* shown then.
C9_AddValidation ==
    /\ [][((trim(title) = <<>> \/ trim(body) = <<>>) /\ save) =>
            /\ alerts' # alerts
            /\ UNCHANGED <<journalEntries, lsJournal, journalAdded>>]_vars
    /\ [][Len(journalAdded') > Len(journalAdded) =>
            /\ trim(title) # <<>>
            /\ trim(body) # <<>>
            /\ alerts' = alerts
            /\ Extends(journalAdded', journalAdded)
            /\ Last(journalAdded').title = trim(title)
            /\ Last(journalAdded').body = trim(body)
            /\ journalEntries' = <<Last(journalAdded')>> \o journalEntries]_vars
    /\ [][alerts' # alerts => (trim(title) = <<>> \/ trim(body) = <<>>)]_vars

\* a letter with a title and a blank body was rejected with the notice
C9_Witness ==
    /\ alerts = 1
    /\ trim(title) # <<>>
    /\ title # <<>>
    /\ body = <<" ">>
    /\ journalAdded = <<>>
    /\ lsJournal = JSONstringify(journalEntries, JournalKeys)

\* C10: write-through. In every state between two events, what each key of
\* the storage holds is a serialized array that parses back to the
\* collection in memory.
C10_WriteThrough ==
    /\ lsUploads.kind = "array"
    /\ lsJournal.kind = "array"
    /\ LoadCollection(lsUploads) = voiceUploads
    /\ LoadCollection(lsJournal) = journalEntries

\* both collections have been added to and removed from
C10_Witness ==
    /\ nextUrl > 1
    /\ BlobUrl(1) \notin RegistryUrls
    /\ journalAdded # <<>>
    /\ journalRemoved # {}
    /\ journalEntries # <<>>
    /\ LoadCollection(lsJournal) = journalEntries

(***************************************************************************)
(* Properties of the ids                                                   *)
(***************************************************************************)
Ids(q) == {q[i].id : i \in DOMAIN q}

\* C11: id uniqueness. In every reachable state no two records of the same
\* collection (voice uploads, chat log with its opening greeting, journal)
\* have the same id.
C11_UniqueIds ==
    /\ Cardinality(Ids(voiceUploads)) = Len(voiceUploads)
    /\ Cardinality(Ids(chatMessages)) = Len(chatMessages)
    /\ Cardinality(Ids(journalEntries)) = Len(journalEntries)

(***************************************************************************)
(* Properties of the voice uploads                                         *)
(***************************************************************************)
\* the property names of the persisted records
PersistedKeys(text) ==
    {text.items[i][j][1] : i \in DOMAIN text.items, j \in 1..Len(UploadKeys)}

\* C12: metadata-only persistence. After any mutation of the uploads, no
\* record of the persisted uploads collection has the object URL among its
\* properties.
C12_MetadataOnly ==
    [][lsUploads' # lsUploads => "url" \notin PersistedKeys(lsUploads')]_vars

\* C13: upload remove is idempotent. removeUpload(id) leaves no record with
\* that id, releases nothing and persists what is left; called again with
\* the same id (or with any id the list does not hold) it changes nothing:
\* the list, the persisted collection and the released object URLs are those
\* of the first call, and it does not raise.
C13_RemoveIdempotent ==
    /\ [][\A id \in UploadIds :
            removeUpload(id) =>
                /\ id \notin Ids(voiceUploads')
                /\ revokeCalls' = revokeCalls
                /\ blobUrls' = blobUrls
                /\ LoadCollection(lsUploads') = voiceUploads']_vars
    /\ [][\A id \in UploadIds :
            (id \notin Ids(voiceUploads) /\ removeUpload(id)) => UNCHANGED vars]_vars
    /\ [](mounted => \A id \in UploadIds : ENABLED removeUpload(id))

\* one of two stored clips was removed; the page is still up, so the same
\* Delete can be taken again over the clip that is left
C13_Witness ==
    /\ mounted
    /\ nextUrl = 1
    /\ voiceUploads = <<StaleUpload(2)>>
    /\ lsUploads = JSONstringify(<<StaleUpload(2)>>, UploadKeys)
    /\ \A u \in DOMAIN revokeCalls : revokeCalls[u] = 0

(***************************************************************************)
(* Properties of the stored collections                                    *)
(***************************************************************************)
\* C14: loading always yields a sequence. Whatever the two storage keys
\* hold (nothing, text that does not parse, or well-formed text of something
\* that is not an array), the collections the page starts with are
\* sequences, empty ones when the key is absent or its text does not parse,
\* and opening the page does not raise.
C14_LoadYieldsSequence ==
    /\ [](IsArray(voiceUploads) /\ IsArray(journalEntries))
    /\ [][Mount =>
            /\ mounted'
            /\ lsUploads \in {Absent, Garbage} => voiceUploads' = <<>>
            /\ lsJournal \in {Absent, Garbage} => journalEntries' = <<>>]_vars

(***************************************************************************)
(* Properties of the quoting reply                                         *)
(***************************************************************************)
\* the log positions of the replies made by the quoting template
Echoes == {i \in DOMAIN chatMessages :
             /\ chatMessages[i].from = "soul"
             /\ Head(chatMessages[i].text) = Template1Head}
Quoted(i) == SubSeq(chatMessages[i].text, 2, Len(chatMessages[i].text) - 1)

\* C15: truncation bound. What the quoting reply shows of the user's text
\* is at most 80 characters long; it is the text itself when the text has
\* at most 80 characters, and otherwise a prefix of the text followed by one
\* ellipsis character.
C15_TruncationBound ==
    \A i \in Echoes :
        /\ Len(Quoted(i)) <= EchoLimit
        /\ \E k \in DOMAIN replyTimers :
             LET u == replyTimers[k].text IN
               /\ replyTimers[k].state = "fired"
               /\ IF Len(u) <= EchoLimit
                  THEN Quoted(i) = u
                  ELSE /\ Quoted(i) = Append(SubSeq(u, 1, Len(Quoted(i)) - 1), Ellipsis)
                       /\ \A j \in 1..(Len(Quoted(i)) - 1) : Quoted(i)[j] # Ellipsis

\* a message of more than 80 characters was quoted, cut to 80
C15_Witness ==
    \E i \in Echoes :
        /\ Len(Quoted(i)) = EchoLimit
        /\ Last(Quoted(i)) = Ellipsis
        /\ \E k \in DOMAIN replyTimers :
             /\ replyTimers[k].state = "fired"
             /\ Len(replyTimers[k].text) > EchoLimit
             /\ SubSeq(Quoted(i), 1, EchoLimit - 1) = SubSeq(replyTimers[k].text, 1, EchoLimit - 1)

(***************************************************************************)
(* Properties of the healing progress                                      *)
(***************************************************************************)
\* C16: healing progress. While a session is active healingProgress is
\* within 0..100 and no step that leaves the session active lowers it; no
\* run counts more than 6 cycles; the tick that ends a session by itself
\* leaves healingProgress at exactly 100, which is not below what it was.
C16_HealingProgress ==
    /\ [](isHealing => (Percent(0) <= healingProgress /\ healingProgress <= Percent(100)))
    /\ [](\A id \in TimerIds : cycle[id] <= total)
    /\ [][(isHealing /\ isHealing') => healingProgress' >= healingProgress]_vars
    /\ [][(isHealing /\ ~isHealing' /\ cycle' # cycle) =>
            /\ healingProgress' = Percent(100)
            /\ healingProgress' >= healingProgress
            /\ \E id \in TimerIds : cycle'[id] = total]_vars

\* a running session has ticked twice and its progress is strictly between
\* that of the first tick and 100
C16_Witness ==
    /\ isHealing
    /\ cycle[healingTimerRef] = 2
    /\ healingProgress = CycleProgress(2)
    /\ CycleProgress(1) < healingProgress
    /\ healingProgress < Percent(100)

(***************************************************************************)
(* Properties of the scheduled replies                                     *)
(***************************************************************************)
\* C17: pending replies cannot be cancelled. No step (Clear, a further
\* send, the healing buttons, a removal of a clip or of a letter) takes a
\* scheduled reply away or changes its text: a pending reply stays pending
\* until it fires. Clear leaves the scheduled replies as they are, and a
\* reply that fires over the emptied log becomes its only message. Every
\* accepted send is eventually answered, once: the replies delivered come
\* to equal the sends accepted.
C17_RepliesNotCancellable ==
    /\ [][\A k \in DOMAIN replyTimers :
            replyTimers[k].state = "pending" =>
                /\ k \in DOMAIN replyTimers'
                /\ replyTimers'[k].text = replyTimers[k].text
                /\ replyTimers'[k].state \in {"pending", "fired"}
                /\ replyTimers'[k].state = "fired" =>
                       (Extends(chatMessages', chatMessages) /\ Last(chatMessages').from = "soul")]_vars
    /\ [][(chatMessages # <<>> /\ chatMessages' = <<>>) => replyTimers' = replyTimers]_vars
    /\ [][\A k \in 1..MaxSends :
            (chatMessages = <<>> /\ Fires(k)) =>
                /\ Len(chatMessages') = 1
                /\ chatMessages'[1].text \in KnownReplies(replyTimers[k].text)]_vars
    /\ [][Cardinality({k \in DOMAIN replyTimers' : replyTimers'[k].state = "fired"})
            >= Cardinality({k \in DOMAIN replyTimers : replyTimers[k].state = "fired"})]_vars
    /\ \A k \in 1..MaxSends :
            (k \in DOMAIN replyTimers /\ replyTimers[k].state = "pending")
                ~> (/\ k \in DOMAIN replyTimers
                    /\ \A j \in 1..k : replyTimers[j].state = "fired")

\* the log was cleared while the reply was pending and holds nothing but
\* that reply; meanwhile a session was started and stopped, the stored clip
\* and the stored letter removed
C17_Witness ==
    /\ Len(replyTimers) = 1
    /\ replyTimers[1].state = "fired"
    /\ Len(chatMessages) = 1
    /\ chatMessages[1].from = "soul"
    /\ chatMessages[1].text \in KnownReplies(replyTimers[1].text)
    /\ nextTimer > 1
    /\ ~isHealing
    /\ voiceUploads = <<>>
    /\ journalEntries = <<>>

(***************************************************************************)
(* Properties of the healing session and the chat together                 *)
(***************************************************************************)
\* C18: healing and chat are independent. Start, Stop and a tick of the
\* healing session leave the chat log and the scheduled replies as they
\* are; a send, the delivery of a reply and Clear leave the healing flag,
\* the progress, the cycle counts and the schedule as they are.
C18_HealingChatIndependent ==
    /\ [][(StartClick \/ StopClick \/ \E id \in TimerIds : HealingTick(id)) =>
            UNCHANGED <<chatMessages, replyTimers>>]_vars
    /\ [][(sendChat \/ ClearChat \/ \E k \in 1..MaxSends : SoulReply(k)) =>
            UNCHANGED <<isHealing, healingProgress, cycle, intervals, healingTimerRef, nextTimer>>]_vars

\* the reply was delivered while a session that had ticked was running, and
\* the session runs on
C18_Witness ==
    /\ isHealing
    /\ cycle[healingTimerRef] = 1
    /\ healingProgress = CycleProgress(1)
    /\ healingTimerRef \in intervals
    /\ Len(replyTimers) = 1
    /\ replyTimers[1].state = "fired"
    /\ Len(chatMessages) = 3
    /\ chatMessages[2].from = "you"
    /\ chatMessages[3].from = "soul"
    /\ utterance \in KnownReplies(replyTimers[1].text)

(***************************************************************************)
(* Properties of the chat log                                              *)
(***************************************************************************)
\* C19: the chat log is append-only between clears. A step that is not
\* Clear leaves the log as it is or adds one message at its end, and that
\* message is made in that step (by a send, by a reply that fires, or by
\* Generate & Speak) and stamped with the clock reading of that step: no
\* step puts back what was there before. Clear leaves the log empty, and the
\* opening greeting, once gone, is never in the log again.
C19_AppendOnly ==
    /\ [][~ClearChat => (chatMessages' = chatMessages \/ Extends(chatMessages', chatMessages))]_vars
    /\ [][ClearChat => chatMessages' = <<>>]_vars
    /\ [][Extends(chatMessages', chatMessages) =>
            /\ Last(chatMessages').time = now'
            /\ Last(chatMessages') # InitialMessage
            /\ \/ /\ Last(chatMessages').from = "you"
                  /\ Len(replyTimers') = Len(replyTimers) + 1
               \/ /\ Last(chatMessages').from = "soul"
                  /\ \E k \in 1..MaxSends : Fires(k)
               \/ /\ Last(chatMessages').from = "soul"
                  /\ Last(chatMessages').text = createStory(storyPrompt)
                  /\ storyCount' = storyCount + 1]_vars
    /\ [][InitialMessage \notin Range(chatMessages) =>
            InitialMessage \notin Range(chatMessages')]_vars

\* the log was cleared and has since been given a story and a reply, in
\* that order
C19_Witness ==
    /\ Len(chatMessages) = 2
    /\ InitialMessage \notin Range(chatMessages)
    /\ chatMessages[1].text = createStory(storyPrompt)
    /\ storyCount = 1
    /\ chatMessages[2].from = "soul"
    /\ Len(replyTimers) = 1
    /\ replyTimers[1].state = "fired"
    /\ chatMessages[2].text \in KnownReplies(replyTimers[1].text)

(***************************************************************************)
(* Properties of the journal's order                                       *)
(***************************************************************************)
Reverse(q) == [i \in 1..Len(q) |-> q[Len(q) + 1 - i]]

\* p can be had from q by leaving entries out
RECURSIVE IsSubseq(_, _)
IsSubseq(p, q) ==
    IF p = <<>> THEN TRUE
    ELSE IF q = <<>> THEN FALSE
    ELSE IF Head(p) = Head(q) THEN IsSubseq(Tail(p), Tail(q))
    ELSE IsSubseq(p, Tail(q))

\* C20: journal ordering. After any sequence of adds and removes the list
\* holds the surviving entries most recently created first: it is the
\* reverse of the order of creation (the stored letter, then the entries
\* added, oldest first) with the removed entries left out. An add puts the
\* new entry at the head, a remove keeps the order of the rest, and an
\* entry whose id was never removed is in the list.
C20_JournalOrder ==
    /\ [](IsSubseq(journalEntries, Reverse(<<StaleEntry>> \o journalAdded)))
    /\ [](\A i \in DOMAIN journalAdded :
            journalAdded[i].id \notin journalRemoved =>
                journalAdded[i] \in Range(journalEntries))
    /\ [][journalAdded' # journalAdded =>
            journalEntries' = <<Last(journalAdded')>> \o journalEntries]_vars
    /\ [][\A i \in 1..(MaxAdds + 1) :
            DeleteClick(i) => IsSubseq(journalEntries', journalEntries)]_vars

\* a letter was added to a journal that held a stored one: the new letter
\* is listed first
C20_Witness ==
    /\ Len(journalAdded) = 1
    /\ journalAdded[1] # StaleEntry
    /\ journalAdded[1].createdAt > StaleEntry.createdAt
    /\ journalEntries = <<journalAdded[1], StaleEntry>>
    /\ LoadCollection(lsJournal) = <<journalAdded[1], StaleEntry>>

(***************************************************************************)
(* Properties of the healing flag                                          *)
(***************************************************************************)
\* C21: flag and schedule agree. In every reachable state isHealing is true
\* exactly when an interval is outstanding. Hence while the session is
\* inactive no tick fires (no cycle is counted, no cue is spoken), and a
\* step that changes healingProgress from an inactive state is Start or
\* Stop.
C21_FlagIffScheduled ==
    /\ [](isHealing <=> intervals # {})
    /\ [](~isHealing => \A id \in TimerIds : ~ENABLED HealingTick(id))
    /\ [][~isHealing => (cycle' = cycle /\ speakCalls' = speakCalls)]_vars
    /\ [][(~isHealing /\ healingProgress' # healingProgress) =>
            (StartClick \/ StopClick)]_vars

\* a second session runs after the first one completed by itself: between
\* the two the flag was down with nothing scheduled
C21_Witness ==
    /\ isHealing
    /\ nextTimer = 3
    /\ intervals = {2}
    /\ cycle[1] = total
    /\ cycle[2] = 1
    /\ healingProgress = CycleProgress(1)

(***************************************************************************)
(* Properties of the text a reply is made from                             *)
(***************************************************************************)
\* the reply of the quoting template for the user text u
EchoReply(u) == <<Template1Head>> \o truncate(u, EchoLimit) \o <<Template1Tail>>

\* C22: a reply is made from the text of its own send. The text a send
\* schedules its reply with is the trimmed input of that moment, the text of
\* the user message appended in the same step; no later step (an edit of
\* the input, another send, Clear) changes it; and the reply that fires
\* quotes that text, whatever the input holds by then.
C22_ReplyUsesSentText ==
    /\ [][Len(replyTimers') > Len(replyTimers) =>
            /\ replyTimers' = Append(replyTimers, Last(replyTimers'))
            /\ Last(replyTimers').text = trim(chatInput)
            /\ Last(replyTimers').text = Last(chatMessages').text
            /\ Last(chatMessages').from = "you"]_vars
    /\ [][\A k \in DOMAIN replyTimers :
            /\ k \in DOMAIN replyTimers'
            /\ replyTimers'[k].text = replyTimers[k].text]_vars
    /\ [][\A k \in 1..MaxSends :
            Fires(k) =>
                /\ Last(chatMessages').text \in KnownReplies(replyTimers[k].text)
                /\ Head(Last(chatMessages').text) = Template1Head =>
                       Last(chatMessages').text = EchoReply(replyTimers[k].text)]_vars

\* "a" was sent, then "b"; the log was cleared and the input edited; the
\* reply to the first send then quoted "a", the second is still to come
C22_Witness ==
    /\ Len(replyTimers) = 2
    /\ replyTimers[1] = [text |-> <<"a">>, state |-> "fired"]
    /\ replyTimers[2] = [text |-> <<"b">>, state |-> "pending"]
    /\ chatInput = <<"b">>
    /\ Len(chatMessages) = 1
    /\ chatMessages[1].from = "soul"
    /\ chatMessages[1].text = EchoReply(<<"a">>)
    /\ chatMessages[1].text # EchoReply(trim(chatInput))
    /\ utterance = EchoReply(<<"a">>)

====
